---- MODULE Spec2Model ----
(***************************************************************************)
(* Model of ouch's error module (src/error.rs): the Error taxonomy, the    *)
(* From conversions that classify foreign errors, the FinalError builder   *)
(* and the two Display implementations.                                    *)
(*                                                                         *)
(* A Rust String is a sequence of one-character strings, so that line      *)
(* breaks, substrings and emptiness of the rendered text are observable.   *)
(* An Option<T> is the empty sequence (None) or a one-element sequence.    *)
(***************************************************************************)
EXTENDS Integers, Sequences, FiniteSets, TLC

\* Longest chain of .detail(..) calls explored on one message.
MaxDetails == 2
\* Longest chain of .hint(..) calls explored on one message.
MaxHints == 2

VARIABLES
    ACCESSIBLE,  \* crate::cli::ACCESSIBLE, a write-once Option<bool>
    color,       \* whether coloured text is enabled (fixed for the process)
    msg,         \* Option<FinalError>: a builder chain not yet wrapped
    err,         \* Option<Error>: the error value travelling up the stack
    origin,      \* Option<foreign error>: what err was classified from
    calls,       \* Option<the arguments of the builder calls made on the message>
    pc,          \* position of the renderer: idle, details, hints, done
    self,        \* Option<FinalError>: `self` of the running FinalError::fmt
    f,           \* the text written to the Formatter so far
    reads,       \* values ACCESSIBLE.get().unwrap_or(&false) returned so far
    prev         \* Option<[self, f, reads, of]>: the last completed rendering

vars == <<ACCESSIBLE, color, msg, err, origin, calls, pc, self, f, reads, prev>>

----------------------------------------------------------------------------
(* String literals of the source.                                          *)

STR_ERROR_bracketed ==
    <<"[","E","R","R","O","R","]">>
STR_ERROR ==
    <<"E","R","R","O","R">>
STR_hint ==
    <<"h","i","n","t",":">>
STR_hints ==
    <<"h","i","n","t","s",":">>
STR_dash ==
    <<" ","-"," ">>
STR_File_not_found ==
    <<"F","i","l","e"," ","n","o","t"," ","f","o","u","n","d">>
STR_File_already_exists ==
    <<"F","i","l","e"," ","a","l","r","e","a","d","y"," ","e","x","i","s","t","s">>
STR_Permission_denied ==
    <<"P","e","r","m","i","s","s","i","o","n"," ","d","e","n","i","e","d">>
STR_Invalid_zip_archive ==
    <<"I","n","v","a","l","i","d"," ","z","i","p"," ","a","r","c","h","i","v","e">>
STR_Unsupported_zip_archive ==
    <<"U","n","s","u","p","p","o","r","t","e","d"," ","z","i","p"," ","a","r","c","h","i","v","e">>
STR_Unexpected_error_in_zip_archive ==
    <<"U","n","e","x","p","e","c","t","e","d"," ","e","r","r","o","r"," ","i","n"," ","z","i","p"," ","a","r","c","h","i","v","e">>
STR_root_title ==
    <<"I","t"," ","s","e","e","m","s"," ","y","o","u","'","r","e"," ","t","r","y","i","n","g"," ","t","o"," ","c","o","m","p","r","e","s","s"," ","t","h","e"," ","r","o","o","t"," ","f","o","l","d","e","r",".">>
STR_root_detail ==
    <<"T","h","i","s"," ","i","s"," ","u","n","a","d","v","i","s","a","b","l","e"," ","s","i","n","c","e"," ","o","u","c","h"," ","d","o","e","s"," ","c","o","m","p","r","e","s","s","i","o","n","s"," ","i","n","-","m","e","m","o","r","y",".">>
STR_root_hint ==
    <<"U","s","e"," ","a"," ","m","o","r","e"," ","a","p","p","r","o","p","r","i","a","t","e"," ","t","o","o","l"," ","f","o","r"," ","t","h","i","s",","," ","s","u","c","h"," ","a","s"," ","r","s","y","n","c",".">>
NL ==
    <<"\n">>

----------------------------------------------------------------------------
(* Text helpers.                                                           *)

\* sub occurs in s starting at position i
OccursAt(sub, s, i) ==
    /\ i >= 1
    /\ i + Len(sub) - 1 <= Len(s)
    /\ \A k \in 1..Len(sub) : s[i + k - 1] = sub[k]

\* number of occurrences of the non-empty text sub in s
Count(sub, s) == Cardinality({i \in 1..Len(s) : OccursAt(sub, s, i)})

Contains(sub, s) == \E i \in 1..(Len(s) + 1) : OccursAt(sub, s, i)

IsPrefix(p, s) == OccursAt(p, s, 1)

SingleLine(s) == \A i \in 1..Len(s) : s[i] # "\n"

\* the lines of s: the pieces between line breaks
RECURSIVE Lines(_)
Lines(s) ==
    IF SingleLine(s) THEN <<s>>
    ELSE LET i == CHOOSE j \in 1..Len(s) :
                      s[j] = "\n" /\ \A k \in 1..(j - 1) : s[k] # "\n"
         IN  <<SubSeq(s, 1, i - 1)>> \o Lines(SubSeq(s, i + 1, Len(s)))

\* concatenation of a sequence of texts
RECURSIVE Flatten(_)
Flatten(ss) == IF ss = <<>> THEN <<>> ELSE Head(ss) \o Flatten(Tail(ss))

None == <<>>
Some(x) == <<x>>

----------------------------------------------------------------------------
(* Inputs: the texts callers pass and the foreign errors that can arrive.  *)

T_bad_input ==
    <<"b","a","d"," ","i","n","p","u","t">>
T_multi ==
    <<"a","\n","b">>
T_hints ==
    <<"h","i","n","t","s",":">>
D_missing_field ==
    <<"m","i","s","s","i","n","g"," ","f","i","e","l","d">>
D_hint ==
    <<"h","i","n","t",":">>
H_check_the_docs ==
    <<"c","h","e","c","k"," ","t","h","e"," ","d","o","c","s">>
H_multi ==
    <<"p","\n","q">>
M_disk ==
    <<"d","i","s","k"," ","f","u","l","l">>
Z_code ==
    <<"b","a","d"," ","m","a","g","i","c">>
L_desc ==
    <<"f","r","a","m","e"," ","h","e","a","d","e","r"," ","i","n","v","a","l","i","d">>
W_desc ==
    <<"l","o","o","p"," ","d","e","t","e","c","t","e","d">>

TitlePool == {<<>>, T_bad_input, T_multi, T_hints}
DetailPool == {D_missing_field, D_hint}
HintPool == {H_check_the_docs, H_multi}
IoMsgPool == {<<>>, M_disk, STR_Unexpected_error_in_zip_archive}
ZipCodePool == {<<>>, Z_code}
Lz4DescPool == {L_desc}
WalkdirDescPool == {W_desc}

----------------------------------------------------------------------------
(* Colours (crate::utils::colors): an escape sequence when coloured text is *)
(* enabled, the empty string otherwise.                                     *)

RED == IF color THEN <<"ESC","[","3","1","m">> ELSE <<>>
GREEN == IF color THEN <<"ESC","[","3","2","m">> ELSE <<>>
YELLOW == IF color THEN <<"ESC","[","3","3","m">> ELSE <<>>
RESET == IF color THEN <<"ESC","[","3","9","m">> ELSE <<>>

----------------------------------------------------------------------------
(* std::io::Error as the conversions see it: a kind and a Display text.     *)
(* An error is built from a raw OS code, from a bare kind, or from a kind   *)
(* with a caller-supplied message.                                          *)

STR_entity_not_found ==
    <<"e","n","t","i","t","y"," ","n","o","t"," ","f","o","u","n","d">>
STR_permission_denied ==
    <<"p","e","r","m","i","s","s","i","o","n"," ","d","e","n","i","e","d">>
STR_entity_already_exists ==
    <<"e","n","t","i","t","y"," ","a","l","r","e","a","d","y"," ","e","x","i","s","t","s">>
STR_operation_interrupted ==
    <<"o","p","e","r","a","t","i","o","n"," ","i","n","t","e","r","r","u","p","t","e","d">>
STR_other_error ==
    <<"o","t","h","e","r"," ","e","r","r","o","r">>
STR_ENOENT ==
    <<"N","o"," ","s","u","c","h"," ","f","i","l","e"," ","o","r"," ","d","i","r","e","c","t","o","r","y">>
STR_EACCES ==
    <<"P","e","r","m","i","s","s","i","o","n"," ","d","e","n","i","e","d">>
STR_EEXIST ==
    <<"F","i","l","e"," ","e","x","i","s","t","s">>
STR_EINTR ==
    <<"I","n","t","e","r","r","u","p","t","e","d"," ","s","y","s","t","e","m"," ","c","a","l","l">>
STR_os_error ==
    <<" ","(","o","s"," ","e","r","r","o","r"," ">>

IoKinds == {"NotFound", "PermissionDenied", "AlreadyExists", "Interrupted", "Other"}
OsCodes == {2, 4, 13, 17}

\* ErrorKind's own description, the text of an error that carries only a kind
KindDescription(kind) ==
    CASE kind = "NotFound" -> STR_entity_not_found
      [] kind = "PermissionDenied" -> STR_permission_denied
      [] kind = "AlreadyExists" -> STR_entity_already_exists
      [] kind = "Interrupted" -> STR_operation_interrupted
      [] OTHER -> STR_other_error

\* the kind the platform assigns to a raw OS error code
OsKind(code) ==
    CASE code = 2 -> "NotFound"
      [] code = 13 -> "PermissionDenied"
      [] code = 17 -> "AlreadyExists"
      [] code = 4 -> "Interrupted"
      [] OTHER -> "Other"

OsMessage(code) ==
    CASE code = 2 -> STR_ENOENT
      [] code = 13 -> STR_EACCES
      [] code = 17 -> STR_EEXIST
      [] code = 4 -> STR_EINTR
      [] OTHER -> <<>>

OsDigits(code) ==
    CASE code = 2 -> <<"2">>
      [] code = 4 -> <<"4">>
      [] code = 13 -> <<"1","3">>
      [] code = 17 -> <<"1","7">>
      [] OTHER -> <<"0">>

IoOs(code) == [kind |-> OsKind(code), code |-> code, repr |-> "Os", text |-> <<>>]
IoSimple(kind) == [kind |-> kind, code |-> 0, repr |-> "Simple", text |-> <<>>]
IoCustom(kind, text) == [kind |-> kind, code |-> 0, repr |-> "Custom", text |-> text]

IoErrors ==
    {IoOs(c) : c \in OsCodes}
      \cup {IoSimple(k) : k \in IoKinds}
      \cup {IoCustom(k, m) : k \in IoKinds, m \in IoMsgPool}

\* err.kind()
io_kind(e) == e.kind

\* err.to_string() of a std::io::Error
io_to_string(e) ==
    CASE e.repr = "Os" -> OsMessage(e.code) \o STR_os_error \o OsDigits(e.code) \o <<")">>
      [] e.repr = "Simple" -> KindDescription(e.kind)
      [] OTHER -> e.text

\* zip::result::ZipError
ZipIo(e) == [code |-> <<>>, zip |-> "Io", io |-> Some(e)]
ZipInvalidArchive(c) == [code |-> c, zip |-> "InvalidArchive", io |-> None]
ZipUnsupportedArchive(c) == [code |-> c, zip |-> "UnsupportedArchive", io |-> None]
ZipFileNotFound == [code |-> <<>>, zip |-> "FileNotFound", io |-> None]

ZipErrors ==
    {ZipIo(e) : e \in IoErrors}
      \cup {ZipInvalidArchive(c) : c \in ZipCodePool}
      \cup {ZipUnsupportedArchive(c) : c \in ZipCodePool}
      \cup {ZipFileNotFound}

\* lzzzz::lz4f::Error and walkdir::Error: all that is used is the Display text
Lz4Errors == {[display |-> d] : d \in Lz4DescPool}
WalkdirErrors == {[display |-> d] : d \in WalkdirDescPool}

\* a foreign error together with the subsystem it comes from
Foreign(from, e) == [e |-> e, from |-> from]

----------------------------------------------------------------------------
(* FinalError and its builder.                                             *)

FinalError(title, details, hints) ==
    [title |-> title, details |-> details, hints |-> hints]

\* #[derive(Default)]
Default == FinalError(<<>>, <<>>, <<>>)

with_title(title) == FinalError(title, <<>>, <<>>)

\* detail that inserts at the front instead of pushing at the back
detail_mut(this, d) == [this EXCEPT !.details = <<d>> \o @]

detail(this, d) == [this EXCEPT !.details = Append(@, d)]

hint(this, h) == [this EXCEPT !.hints = Append(@, h)]

----------------------------------------------------------------------------
(* The Error enum.  Every value is a record with the same fields; the ones *)
(* a variant does not carry stay empty.                                    *)

Variant(tag, text, final) == [text |-> text, tag |-> tag, final |-> final]

IoError(reason) == Variant("IoError", reason, None)
Lz4Error(reason) == Variant("Lz4Error", reason, None)
NotFound(error_title) == Variant("NotFound", error_title, None)
AlreadyExists(error_title) == Variant("AlreadyExists", error_title, None)
InvalidZipArchive(code) == Variant("InvalidZipArchive", code, None)
PermissionDenied(error_title) == Variant("PermissionDenied", error_title, None)
UnsupportedZipArchive(code) == Variant("UnsupportedZipArchive", code, None)
CompressingRootFolder == Variant("CompressingRootFolder", <<>>, None)
WalkdirError(reason) == Variant("WalkdirError", reason, None)
Custom(reason) == Variant("Custom", <<>>, Some(reason))

\* from_io with the AlreadyExists arm forgotten: it falls to the catch-all
from_io_mut(e) ==
    CASE io_kind(e) = "NotFound" -> NotFound(io_to_string(e))
      [] io_kind(e) = "PermissionDenied" -> PermissionDenied(io_to_string(e))
      [] OTHER -> IoError(io_to_string(e))

\* impl From<std::io::Error> for Error
from_io(e) ==
    CASE io_kind(e) = "NotFound" -> NotFound(io_to_string(e))
      [] io_kind(e) = "PermissionDenied" -> PermissionDenied(io_to_string(e))
      [] io_kind(e) = "AlreadyExists" -> AlreadyExists(io_to_string(e))
      [] OTHER -> IoError(io_to_string(e))

\* impl From<lzzzz::lz4f::Error> for Error
from_lz4(e) == Lz4Error(e.display)

\* from_zip with the missing archive entry collapsed into Error::NotFound
from_zip_mut(z) ==
    CASE z.zip = "Io" -> from_io(z.io[1])
      [] z.zip = "InvalidArchive" -> InvalidZipArchive(z.code)
      [] z.zip = "FileNotFound" -> NotFound(STR_Unexpected_error_in_zip_archive)
      [] OTHER -> UnsupportedZipArchive(z.code)

\* impl From<zip::result::ZipError> for Error
from_zip(z) ==
    CASE z.zip = "Io" -> from_io(z.io[1])
      [] z.zip = "InvalidArchive" -> InvalidZipArchive(z.code)
      [] z.zip = "FileNotFound" ->
            Custom(detail(with_title(STR_Unexpected_error_in_zip_archive),
                          STR_File_not_found))
      [] OTHER -> UnsupportedZipArchive(z.code)

\* impl From<walkdir::Error> for Error
from_walkdir(e) == WalkdirError(e.display)

\* impl From<FinalError> for Error
from_final(m) == Custom(m)

\* the match with the detail of AlreadyExists copied from NotFound
ErrorToFinal_mut(e) ==
    CASE e.tag = "WalkdirError" -> with_title(e.text)
      [] e.tag = "NotFound" -> detail(with_title(e.text), STR_File_not_found)
      [] e.tag = "CompressingRootFolder" ->
            hint(detail(with_title(STR_root_title), STR_root_detail), STR_root_hint)
      [] e.tag = "IoError" -> with_title(e.text)
      [] e.tag = "Lz4Error" -> with_title(e.text)
      [] e.tag = "AlreadyExists" -> detail(with_title(e.text), STR_File_not_found)
      [] e.tag = "InvalidZipArchive" -> detail(with_title(STR_Invalid_zip_archive), e.text)
      [] e.tag = "PermissionDenied" -> detail(with_title(e.text), STR_Permission_denied)
      [] e.tag = "UnsupportedZipArchive" ->
            detail(with_title(STR_Unsupported_zip_archive), e.text)
      [] OTHER -> e.final[1]

\* the match with the reason of Lz4Error dropped
ErrorToFinal_untitled(e) ==
    CASE e.tag = "WalkdirError" -> with_title(e.text)
      [] e.tag = "NotFound" -> detail(with_title(e.text), STR_File_not_found)
      [] e.tag = "CompressingRootFolder" ->
            hint(detail(with_title(STR_root_title), STR_root_detail), STR_root_hint)
      [] e.tag = "IoError" -> with_title(e.text)
      [] e.tag = "Lz4Error" -> Default
      [] e.tag = "AlreadyExists" -> detail(with_title(e.text), STR_File_already_exists)
      [] e.tag = "InvalidZipArchive" -> detail(with_title(STR_Invalid_zip_archive), e.text)
      [] e.tag = "PermissionDenied" -> detail(with_title(e.text), STR_Permission_denied)
      [] e.tag = "UnsupportedZipArchive" ->
            detail(with_title(STR_Unsupported_zip_archive), e.text)
      [] OTHER -> e.final[1]

\* the match of <Error as Display>::fmt: the message an Error is shown as
ErrorToFinal(e) ==
    CASE e.tag = "WalkdirError" -> with_title(e.text)
      [] e.tag = "NotFound" -> detail(with_title(e.text), STR_File_not_found)
      [] e.tag = "CompressingRootFolder" ->
            hint(detail(with_title(STR_root_title), STR_root_detail), STR_root_hint)
      [] e.tag = "IoError" -> with_title(e.text)
      [] e.tag = "Lz4Error" -> with_title(e.text)
      [] e.tag = "AlreadyExists" -> detail(with_title(e.text), STR_File_already_exists)
      [] e.tag = "InvalidZipArchive" -> detail(with_title(STR_Invalid_zip_archive), e.text)
      [] e.tag = "PermissionDenied" -> detail(with_title(e.text), STR_Permission_denied)
      [] e.tag = "UnsupportedZipArchive" ->
            detail(with_title(STR_Unsupported_zip_archive), e.text)
      [] OTHER -> e.final[1]

----------------------------------------------------------------------------
(* <FinalError as Display>::fmt, one operator per section of the function. *)

\* *crate::cli::ACCESSIBLE.get().unwrap_or(&false)
accessible_get == IF ACCESSIBLE = None THEN FALSE ELSE ACCESSIBLE[1]

\* the title section with the accessible tag ended by a line break
write_title_mut(this, accessible) ==
    IF accessible
        THEN RED \o STR_ERROR \o RESET \o <<":">> \o NL \o this.title
        ELSE RED \o STR_ERROR_bracketed \o RESET \o <<" ">> \o this.title

\* the title section: the tag, then the title
write_title(this, accessible) ==
    IF accessible
        THEN RED \o STR_ERROR \o RESET \o <<":", " ">> \o this.title
        ELSE RED \o STR_ERROR_bracketed \o RESET \o <<" ">> \o this.title

\* the details loop
write_details(this) ==
    Flatten([i \in 1..Len(this.details) |->
                NL \o STR_dash \o YELLOW \o this.details[i] \o RESET])

\* the hints section with the accessible header written inside the loop
write_hints_mut(this, accessible) ==
    NL \o
    (IF accessible
        THEN Flatten([i \in 1..Len(this.hints) |->
                NL \o GREEN \o STR_hints \o RESET \o NL \o this.hints[i]])
        ELSE Flatten([i \in 1..Len(this.hints) |->
                NL \o GREEN \o STR_hint \o RESET \o <<" ">> \o this.hints[i]]))

\* the hints section without the separating writeln
write_hints_noblank(this, accessible) ==
    IF accessible
        THEN NL \o GREEN \o STR_hints \o RESET
                \o Flatten([i \in 1..Len(this.hints) |-> NL \o this.hints[i]])
        ELSE Flatten([i \in 1..Len(this.hints) |->
                NL \o GREEN \o STR_hint \o RESET \o <<" ">> \o this.hints[i]])

\* the hints section, entered only when there is a hint
write_hints(this, accessible) ==
    NL \o
    (IF accessible
        THEN NL \o GREEN \o STR_hints \o RESET
                \o Flatten([i \in 1..Len(this.hints) |-> NL \o this.hints[i]])
        ELSE Flatten([i \in 1..Len(this.hints) |->
                NL \o GREEN \o STR_hint \o RESET \o <<" ">> \o this.hints[i]]))

----------------------------------------------------------------------------
(* The state machine.                                                      *)

Init ==
    /\ ACCESSIBLE = None
    /\ color \in BOOLEAN
    /\ msg = None
    /\ err = None
    /\ origin = None
    /\ calls = None
    /\ pc = "idle"
    /\ self = None
    /\ f = <<>>
    /\ reads = <<>>
    /\ prev = None

\* no rendering is running: the value is not borrowed by a formatter
Quiescent == pc \in {"idle", "done"}

\* the rendering that has just completed, if any, else the one before
Finished ==
    IF pc = "done"
        THEN Some([self |-> self[1], f |-> f, reads |-> reads,
                   of |-> IF err # None THEN "Error" ELSE "FinalError"])
        ELSE prev

\* a new value replaces the current one: nothing has been rendered of it
Fresh ==
    /\ pc' = "idle"
    /\ self' = None
    /\ f' = <<>>
    /\ reads' = <<>>
    /\ prev' = None

\* the record of a builder chain: the argument of the constructor, the
\* arguments of the detail calls and of the hint calls in call order, the
\* constructor used and the method called last
Called(title, ctor) ==
    [title |-> title, details |-> <<>>, hints |-> <<>>, ctor |-> ctor, last_op |-> ctor]

\* the command-line driver initialises the flag, once
SetAccessible(b) ==
    /\ ACCESSIBLE = None
    /\ ACCESSIBLE' = Some(b)
    /\ UNCHANGED <<color, msg, err, origin, calls, pc, self, f, reads, prev>>

\* FinalError::default()
MakeDefault ==
    /\ Quiescent
    /\ msg' = Some(Default)
    /\ err' = None
    /\ origin' = None
    /\ calls' = Some(Called(<<>>, "default"))
    /\ Fresh
    /\ UNCHANGED <<ACCESSIBLE, color>>

\* FinalError::with_title(title)
WithTitle(title) ==
    /\ Quiescent
    /\ msg' = Some(with_title(title))
    /\ err' = None
    /\ origin' = None
    /\ calls' = Some(Called(title, "with_title"))
    /\ Fresh
    /\ UNCHANGED <<ACCESSIBLE, color>>

\* .detail(d) on the message under construction
Detail(d) ==
    /\ Quiescent
    /\ msg # None
    /\ Len(msg[1].details) < MaxDetails
    /\ msg' = Some(detail(msg[1], d))
    /\ calls' = Some([calls[1] EXCEPT !.details = Append(@, d), !.last_op = "detail"])
    /\ Fresh
    /\ UNCHANGED <<ACCESSIBLE, color, err, origin>>

\* .hint(h) on the message under construction
Hint(h) ==
    /\ Quiescent
    /\ msg # None
    /\ Len(msg[1].hints) < MaxHints
    /\ msg' = Some(hint(msg[1], h))
    /\ calls' = Some([calls[1] EXCEPT !.hints = Append(@, h), !.last_op = "hint"])
    /\ Fresh
    /\ UNCHANGED <<ACCESSIBLE, color, err, origin>>

\* Error::from(final_error): the message is moved into Error::Custom
FromFinal ==
    /\ Quiescent
    /\ msg # None
    /\ err' = Some(from_final(msg[1]))
    /\ msg' = None
    /\ origin' = Some(Foreign("final", msg[1]))
    /\ pc' = "idle"
    /\ self' = None
    /\ f' = <<>>
    /\ reads' = <<>>
    /\ prev' = Finished
    /\ UNCHANGED <<ACCESSIBLE, color, calls>>

\* Error::from(io_error): a std::io::Error is classified
FromIo(e) ==
    /\ Quiescent
    /\ err' = Some(from_io(e))
    /\ msg' = None
    /\ origin' = Some(Foreign("io", e))
    /\ calls' = None
    /\ Fresh
    /\ UNCHANGED <<ACCESSIBLE, color>>

\* Error::from(lz4_error): a compression-library error is classified
FromLz4(e) ==
    /\ Quiescent
    /\ err' = Some(from_lz4(e))
    /\ msg' = None
    /\ origin' = Some(Foreign("lz4", e))
    /\ calls' = None
    /\ Fresh
    /\ UNCHANGED <<ACCESSIBLE, color>>

\* Error::from(zip_error): an archive-library error is classified
FromZip(z) ==
    /\ Quiescent
    /\ err' = Some(from_zip(z))
    /\ msg' = None
    /\ origin' = Some(Foreign("zip", z))
    /\ calls' = None
    /\ Fresh
    /\ UNCHANGED <<ACCESSIBLE, color>>

\* Error::from(walkdir_error): a directory-traversal error is classified
FromWalkdir(e) ==
    /\ Quiescent
    /\ err' = Some(from_walkdir(e))
    /\ msg' = None
    /\ origin' = Some(Foreign("walkdir", e))
    /\ calls' = None
    /\ Fresh
    /\ UNCHANGED <<ACCESSIBLE, color>>

\* the policy rejection is constructed directly
RejectRootFolder ==
    /\ Quiescent
    /\ err' = Some(CompressingRootFolder)
    /\ msg' = None
    /\ origin' = None
    /\ calls' = None
    /\ Fresh
    /\ UNCHANGED <<ACCESSIBLE, color>>

\* the value a rendering is asked to show, as a FinalError: an Error goes
\* through the match of <Error as Display>::fmt first
Shown ==
    IF err # None THEN ErrorToFinal(err[1]) ELSE msg[1]

\* a rendering that appends to the text of the rendering before it
FmtTitle_mut ==
    /\ Quiescent
    /\ err # None \/ msg # None
    /\ self' = Some(Shown)
    /\ reads' = <<accessible_get>>
    /\ f' = f \o write_title(Shown, accessible_get)
    /\ pc' = "details"
    /\ prev' = Finished
    /\ UNCHANGED <<ACCESSIBLE, color, msg, err, origin, calls>>

\* a rendering starts: the flag is read and the title section is written
FmtTitle ==
    /\ Quiescent
    /\ err # None \/ msg # None
    /\ self' = Some(Shown)
    /\ reads' = <<accessible_get>>
    /\ f' = write_title(Shown, accessible_get)
    /\ pc' = "details"
    /\ prev' = Finished
    /\ UNCHANGED <<ACCESSIBLE, color, msg, err, origin, calls>>

\* the details loop
FmtDetails ==
    /\ pc = "details"
    /\ f' = f \o write_details(self[1])
    /\ pc' = "hints"
    /\ UNCHANGED <<ACCESSIBLE, color, msg, err, origin, calls, self, reads, prev>>

\* the hints section: skipped without a hint, else the flag is read again
FmtHints ==
    /\ pc = "hints"
    /\ IF self[1].hints = <<>>
          THEN UNCHANGED <<f, reads>>
          ELSE /\ reads' = Append(reads, accessible_get)
               /\ f' = f \o write_hints(self[1], accessible_get)
    /\ pc' = "done"
    /\ UNCHANGED <<ACCESSIBLE, color, msg, err, origin, calls, self, prev>>

Next ==
    \/ \E b \in BOOLEAN : SetAccessible(b)
    \/ MakeDefault
    \/ \E t \in TitlePool : WithTitle(t)
    \/ \E d \in DetailPool : Detail(d)
    \/ \E h \in HintPool : Hint(h)
    \/ FromFinal
    \/ \E e \in IoErrors : FromIo(e)
    \/ \E e \in Lz4Errors : FromLz4(e)
    \/ \E z \in ZipErrors : FromZip(z)
    \/ \E e \in WalkdirErrors : FromWalkdir(e)
    \/ RejectRootFolder
    \/ FmtTitle
    \/ FmtDetails
    \/ FmtHints

Spec == Init /\ [][Next]_vars

----------------------------------------------------------------------------
(* Vocabulary of the properties.                                           *)

Rendering == pc # "idle"
Done == pc = "done"

\* the tag and separator that open the title line
TagPrefix(accessible) ==
    IF accessible THEN RED \o STR_ERROR \o RESET \o <<":", " ">>
    ELSE RED \o STR_ERROR_bracketed \o RESET \o <<" ">>

\* the texts a message is made of
AllTexts(m) == <<m.title>> \o m.details \o m.hints

NoTextContains(sub, m) ==
    \A i \in 1..Len(AllTexts(m)) : ~Contains(sub, AllTexts(m)[i])

AllSingleLine(m) ==
    \A i \in 1..Len(AllTexts(m)) : SingleLine(AllTexts(m)[i])

\* the complete text of a rendering of m whose two reads of the flag are rs
TextOf(m, rs) ==
    write_title(m, rs[1]) \o write_details(m)
        \o (IF m.hints = <<>> THEN <<>> ELSE write_hints(m, rs[2]))

\* the I/O error a classification started from, directly or inside a ZipError
IoOrigin ==
    IF origin # None /\ origin[1].from = "io" THEN Some(origin[1].e)
    ELSE IF origin # None /\ origin[1].from = "zip" /\ origin[1].e.zip = "Io"
        THEN origin[1].e.io
        ELSE None

\* the variant the classification rule assigns to an I/O error kind
TagOfKind(kind) ==
    CASE kind = "NotFound" -> "NotFound"
      [] kind = "PermissionDenied" -> "PermissionDenied"
      [] kind = "AlreadyExists" -> "AlreadyExists"
      [] OTHER -> "IoError"

----------------------------------------------------------------------------
(* C1                                                                      *)

\* C1 as stated: an I/O error, arriving directly or inside ZipError::Io, is
\* classified by its kind alone, and for a kind other than NotFound,
\* PermissionDenied and AlreadyExists the reason of the IoError is the
\* default description of that kind.
C1_ReasonIsKindDescription ==
    IoOrigin # None =>
        /\ err # None
        /\ err[1].tag = TagOfKind(IoOrigin[1].kind)
        /\ err[1].tag = "IoError" => err[1].text = KindDescription(IoOrigin[1].kind)

\* C1 amended: the variant depends only on the kind (NotFound,
\* PermissionDenied, AlreadyExists, else IoError), the text carried is the
\* error's own Display text, which is the kind's default description only
\* for an error that carries nothing but a kind, and ZipError::Io(e) gives
\* exactly the value that classifying e gives.
C1_Classification ==
    IoOrigin # None =>
        LET e == IoOrigin[1] IN
        /\ err # None
        /\ err[1].tag = TagOfKind(e.kind)
        /\ err[1].final = None
        /\ e.repr = "Os" =>
              err[1].text = OsMessage(e.code) \o STR_os_error \o OsDigits(e.code) \o <<")">>
        /\ e.repr = "Simple" => err[1].text = KindDescription(e.kind)
        /\ e.repr = "Custom" => err[1].text = e.text
        /\ origin[1].from = "zip" => err[1] = from_io(e)

C1_Witness ==
    /\ origin = Some(Foreign("zip", ZipIo(IoOs(4))))
    /\ err # None
    /\ err[1].tag = "IoError"
    /\ err[1].text # KindDescription("Interrupted")

----------------------------------------------------------------------------
(* C2                                                                      *)

ZipOrigin(kind) ==
    origin # None /\ origin[1].from = "zip" /\ origin[1].e.zip = kind

ZipNotFoundMessage ==
    FinalError(STR_Unexpected_error_in_zip_archive, <<STR_File_not_found>>, <<>>)

\* the classification half of C2
C2_ZipVariants ==
    /\ ZipOrigin("FileNotFound") =>
          /\ err # None
          /\ err[1].tag = "Custom"
          /\ err[1].tag # "NotFound"
          /\ err[1].final = Some(ZipNotFoundMessage)
    /\ ZipOrigin("InvalidArchive") => err = Some(InvalidZipArchive(origin[1].e.code))
    /\ ZipOrigin("UnsupportedArchive") =>
          err = Some(UnsupportedZipArchive(origin[1].e.code))

\* C2 as stated: 'file not found inside archive' becomes the Custom message,
\* never NotFound, and its rendering differs from the rendering of every
\* NotFound that an I/O error classifies to; invalid/unsupported archive
\* keep their code.
C2_DistinctFromEveryNotFound ==
    /\ C2_ZipVariants
    /\ (ZipOrigin("FileNotFound") /\ Done) =>
          \A e \in IoErrors :
              e.kind = "NotFound" => f # TextOf(ErrorToFinal(from_io(e)), reads)

\* C2 amended: as stated, except that the rendering differs from that of
\* every NotFound whose error_title is not itself the text "Unexpected
\* error in zip archive"; every NotFound made from a raw OS error code or
\* from a bare kind is such a one.
C2_ZipClassification ==
    /\ C2_ZipVariants
    /\ (ZipOrigin("FileNotFound") /\ Done) =>
          \A e \in IoErrors :
              /\ (e.kind = "NotFound"
                    /\ io_to_string(e) # STR_Unexpected_error_in_zip_archive)
                      => f # TextOf(ErrorToFinal(from_io(e)), reads)
              /\ e.repr \in {"Os", "Simple"}
                      => io_to_string(e) # STR_Unexpected_error_in_zip_archive

C2_Witness ==
    /\ ZipOrigin("FileNotFound")
    /\ Done
    /\ Contains(STR_File_not_found, f)

----------------------------------------------------------------------------
(* C3                                                                      *)

\* C3: a rendering of an Error shows the message the mapping table gives for
\* its variant, and Custom{m} shows m itself: its text equals the text of a
\* rendering of the bare m made with the same reads of the flag.
C3_MappingTable ==
    (Rendering /\ err # None) =>
        LET e == err[1]
            m == self[1]
        IN
        /\ e.tag \in {"WalkdirError", "IoError", "Lz4Error"} =>
              m = FinalError(e.text, <<>>, <<>>)
        /\ e.tag = "NotFound" => m = FinalError(e.text, <<STR_File_not_found>>, <<>>)
        /\ e.tag = "AlreadyExists" =>
              m = FinalError(e.text, <<STR_File_already_exists>>, <<>>)
        /\ e.tag = "PermissionDenied" =>
              m = FinalError(e.text, <<STR_Permission_denied>>, <<>>)
        /\ e.tag = "InvalidZipArchive" =>
              m = FinalError(STR_Invalid_zip_archive, <<e.text>>, <<>>)
        /\ e.tag = "UnsupportedZipArchive" =>
              m = FinalError(STR_Unsupported_zip_archive, <<e.text>>, <<>>)
        /\ e.tag = "CompressingRootFolder" =>
              /\ m.title = STR_root_title
              /\ m.details = <<STR_root_detail>>
              /\ m.hints = <<STR_root_hint>>
        /\ e.tag = "Custom" =>
              /\ m = e.final[1]
              /\ origin # None /\ origin[1].from = "final" => m = origin[1].e
              /\ (Done /\ prev # None /\ prev[1].of = "FinalError"
                    /\ prev[1].reads = reads) => prev[1].f = f

C3_Witness ==
    /\ Done
    /\ err # None
    /\ err[1].tag = "Custom"
    /\ origin # None
    /\ origin[1].from = "final"
    /\ self[1].hints # <<>>
    /\ self[1].details # <<>>
    /\ prev # None
    /\ prev[1].of = "FinalError"
    /\ prev[1].reads = reads

----------------------------------------------------------------------------
(* C4                                                                      *)

\* the mode the hints section of a completed rendering was written in
HintsAccessible == Len(reads) = 2 /\ reads[2]
HintsStandard == Len(reads) = 2 /\ ~reads[2]

\* C4 as stated: with at least one hint, the accessible rendering contains
\* "hints:" exactly once and the standard rendering contains "hint:" once
\* per hint, whatever the texts of the message are.
C4_HintMarkersAnyText ==
    (Done /\ self[1].hints # <<>>) =>
        /\ HintsAccessible => Count(STR_hints, f) = 1
        /\ HintsStandard => Count(STR_hint, f) = Len(self[1].hints)

\* C4 amended: the same counts, for a message none of whose own texts
\* (title, details, hints) contains the marker that is counted.
C4_HintMarkers ==
    (Done /\ self[1].hints # <<>>) =>
        /\ (HintsAccessible /\ NoTextContains(STR_hints, self[1]))
              => Count(STR_hints, f) = 1
        /\ (HintsStandard /\ NoTextContains(STR_hint, self[1]))
              => Count(STR_hint, f) = Len(self[1].hints)

C4_Witness ==
    /\ Done
    /\ Len(self[1].hints) = 2
    /\ HintsAccessible
    /\ NoTextContains(STR_hints, self[1])
    /\ ~NoTextContains(STR_hint, self[1])

----------------------------------------------------------------------------
(* C5                                                                      *)

\* C5 as stated: the first line of the text written contains the title,
\* for every message and Error variant and in both modes.
C5_TitleOnFirstLineAnyTitle ==
    Rendering => Contains(self[1].title, Lines(f)[1])

\* C5 amended: the same, for a title that is a single line (has no line
\* break); the first line is then the tag followed by exactly the title.
C5_TitleOnFirstLine ==
    (Rendering /\ SingleLine(self[1].title)) =>
        /\ Contains(self[1].title, Lines(f)[1])
        /\ Lines(f)[1] = TagPrefix(reads[1]) \o self[1].title

C5_Witness ==
    /\ Done
    /\ err # None
    /\ err[1].tag = "PermissionDenied"
    /\ reads[1]
    /\ self[1].title # <<>>
    /\ SingleLine(self[1].title)

----------------------------------------------------------------------------
(* C6                                                                      *)

\* the text an Error supplies as its title
TitleSource(e) ==
    CASE e.tag = "InvalidZipArchive" -> STR_Invalid_zip_archive
      [] e.tag = "UnsupportedZipArchive" -> STR_Unsupported_zip_archive
      [] e.tag = "CompressingRootFolder" -> STR_root_title
      [] e.tag = "Custom" -> e.final[1].title
      [] OTHER -> e.text

\* every step of a rendering can be taken: none of them fails
NeverStuck ==
    /\ (Quiescent /\ (err # None \/ msg # None)) => ENABLED FmtTitle
    /\ pc = "details" => ENABLED FmtDetails
    /\ pc = "hints" => ENABLED FmtHints

\* C6 as stated: every Error renders without failing and the title it
\* produces is not empty, whatever payload the variant carries.
C6_TitleNeverEmpty ==
    /\ NeverStuck
    /\ (pc = "details" /\ err # None) =>
          /\ self[1].title # <<>>
          /\ Len(f) > Len(TagPrefix(reads[1]))

\* C6 amended: every Error renders without failing; the title produced is
\* the text the variant supplies, so it is non-empty for InvalidZipArchive,
\* UnsupportedZipArchive and CompressingRootFolder always, and for the other
\* variants exactly when the reason, error_title or message title they carry
\* is non-empty.
C6_TitleFromPayload ==
    /\ NeverStuck
    /\ (pc = "details" /\ err # None) =>
          /\ f = TagPrefix(reads[1]) \o TitleSource(err[1])
          /\ self[1].title # <<>> <=> TitleSource(err[1]) # <<>>
          /\ err[1].tag \in {"InvalidZipArchive", "UnsupportedZipArchive",
                             "CompressingRootFolder"} => self[1].title # <<>>

C6_Witness ==
    /\ pc = "details"
    /\ err # None
    /\ err[1].tag = "Lz4Error"
    /\ Len(f) > Len(TagPrefix(reads[1]))

----------------------------------------------------------------------------
(* C7                                                                      *)

\* the message the recorded builder calls were made on
Built == IF msg # None THEN msg[1] ELSE err[1].final[1]

\* the texts of items occur in s one after the other, from position from on
RECURSIVE ListedInOrder(_, _, _)
ListedInOrder(items, s, from) ==
    IF items = <<>> THEN TRUE
    ELSE LET hits == {i \in from..Len(s) + 1 : OccursAt(Head(items), s, i)} IN
         IF hits = {} THEN FALSE
         ELSE LET first == CHOOSE i \in hits : \A j \in hits : i <= j
              IN  ListedInOrder(Tail(items), s, first + Len(Head(items)))

\* C7: a message built by with_title(t) and then detail/hint calls in any
\* interleaving has title t, as details the detail arguments in call order
\* and as hints the hint arguments in call order, and a completed rendering
\* lists the details in that order, each after a dash marker, and after them
\* the hints in that order.
C7_BuilderOrder ==
    (calls # None /\ calls[1].ctor = "with_title") =>
        /\ Built.title = calls[1].title
        /\ Built.details = calls[1].details
        /\ Built.hints = calls[1].hints
        /\ Done =>
              ListedInOrder(
                  [i \in 1..Len(calls[1].details) |->
                        NL \o STR_dash \o YELLOW \o calls[1].details[i] \o RESET]
                    \o calls[1].hints,
                  f, 1)

\* two hint calls, then a detail call between or after them, rendered
C7_Witness ==
    /\ Done
    /\ calls # None
    /\ calls[1].ctor = "with_title"
    /\ calls[1].last_op = "detail"
    /\ Len(calls[1].details) = 2
    /\ Len(calls[1].hints) = 2
    /\ calls[1].details[1] # calls[1].details[2]
    /\ calls[1].hints[1] # calls[1].hints[2]

----------------------------------------------------------------------------
(* C8                                                                      *)

\* the layout, line by line, of a completed rendering: out is the text, m
\* the message, rs the reads of the flag (rs[1] for the title section,
\* rs[2] for the hints section)
LayoutHolds(m, rs, out) ==
    LET L == Lines(out)
        d == Len(m.details)
        h == Len(m.hints)
    IN
    /\ IsPrefix(IF rs[1] THEN RED \o STR_ERROR \o RESET \o <<":">>
                ELSE RED \o STR_ERROR_bracketed \o RESET, L[1])
    /\ Len(L) >= 1 + d
    /\ \A i \in 1..d : IsPrefix(STR_dash, L[1 + i])
    /\ h = 0 =>
          /\ Len(L) = 1 + d
          /\ \A i \in 1..Len(L) : L[i] # <<>>
          /\ Len(rs) = 1
    /\ (h >= 1 /\ ~rs[2]) =>
          /\ Len(L) = 1 + d + 1 + h
          /\ L[d + 2] = <<>>
          /\ \A j \in 1..h : IsPrefix(GREEN \o STR_hint, L[d + 2 + j])
    /\ (h >= 1 /\ rs[2]) =>
          /\ Len(L) = 1 + d + 2 + h
          /\ L[d + 2] = <<>>
          /\ L[d + 3] = GREEN \o STR_hints \o RESET
          /\ \A j \in 1..h : L[d + 3 + j] = m.hints[j]

\* a flag that is still unset is read as "off"
UnsetReadsAsStandard ==
    (Rendering /\ ACCESSIBLE = None) => \A i \in 1..Len(reads) : ~reads[i]

\* C8 as stated: the line layout (tag, d dash lines, then nothing, or one
\* blank line and h "hint:" lines, or one blank line, a "hints:" header and
\* h hint lines) holds of every message, and an unset flag gives the
\* standard layout.
C8_LayoutAnyText ==
    /\ UnsetReadsAsStandard
    /\ Done => LayoutHolds(self[1], reads, f)

\* C8 amended: the same layout and line counts, for a message whose title,
\* details and hints are each a single line.
C8_Layout ==
    /\ UnsetReadsAsStandard
    /\ (Done /\ AllSingleLine(self[1])) => LayoutHolds(self[1], reads, f)

C8_Witness ==
    /\ Done
    /\ AllSingleLine(self[1])
    /\ Len(self[1].details) = 2
    /\ Len(self[1].hints) = 2
    /\ reads = <<TRUE, TRUE>>
    /\ Len(Lines(f)) = 7

----------------------------------------------------------------------------
(* C9                                                                      *)

\* a step of a rendering: the renderer moves on
RenderStep == pc' # pc /\ pc' \in {"details", "hints", "done"}

\* C9: a step of a rendering changes neither the value shown nor the flag,
\* and a rendering that completes with the same message, the same reads of
\* the flag and the same colour setting as the completed rendering before it
\* has written the same text.
C9_ReadOnlyProjection ==
    [][/\ RenderStep => /\ msg' = msg
                        /\ err' = err
                        /\ ACCESSIBLE' = ACCESSIBLE
                        /\ color' = color
       /\ (pc' = "done" /\ prev' # None /\ prev'[1].self = self'[1]
              /\ prev'[1].reads = reads') => prev'[1].f = f']_vars

C9_Witness ==
    /\ Done
    /\ prev # None
    /\ prev[1].self = self[1]
    /\ prev[1].reads = reads
    /\ prev[1].of = "Error"
    /\ err # None
    /\ self[1].details # <<>>
    /\ self[1].hints # <<>>
    /\ prev[1].f = f

----------------------------------------------------------------------------
(* C10                                                                     *)

====
